---- MODULE Spec2Model ----
(***************************************************************************)
(* State-machine model of InvenTree/part/models.py: the BomItem table and  *)
(* its validation (BomItem.clean, unique_together), the derived stock      *)
(* quantities of Part (total_stock, allocation_count, available_stock,     *)
(* can_build), PartCategory.partcount and the pre_delete handler of        *)
(* PartCategory.                                                           *)
(***************************************************************************)
EXTENDS Integers, Sequences, FiniteSets, TLC

\* ------------------------------------------------------------------ bounds
Parts == {"A", "B", "C"}

\* Largest quantity of a BomItem, a stock entry or a build.
MaxQty == 1

\* Largest number of rows held by the BomItem, stock and build tables together.
MaxRows == 3

None == "None"

\* Request handlers that run addEdge concurrently.
Procs == {"p1", "p2"}

\* Categories, and the requests that delete categories concurrently.
Cats == {"c1", "c2", "c3"}

Dels == {"d1", "d2"}

\* Quantity domains: PositiveIntegerField with MinValueValidator(0) admits 0.
Quantities == 0..MaxQty

VARIABLES
    edges,   \* BomItem table in primary-key order: rows [part, sub_part, quantity]
    stock,   \* Part.locations: rows [part, quantity, in_stock]
    builds,  \* Part.builds: rows [part, quantity, is_active]
    result,  \* outcome of the latest sequential addEdge, or None
    pc,      \* concurrent addEdge: "idle" or "validated", per request handler
    req,     \* concurrent addEdge: the BomItem a handler has validated, or None
    res,     \* concurrent addEdge: outcome of a handler's latest call, or None
    cats,    \* the PartCategory rows that exist
    parent,  \* PartCategory.parent, a function on cats
    category,\* Part.category, a function on Parts
    lastDel, \* the latest category deleted in one piece: what it was, or None
    dpc,     \* concurrent deletion: position of each deletion
    dinst    \* concurrent deletion: the instance a deletion has loaded, or None

bomVars == <<edges, stock, builds, result>>
concVars == <<pc, req, res>>
catVars == <<cats, parent, category, lastDel>>
delVars == <<dpc, dinst>>
vars == <<edges, stock, builds, result, pc, req, res,
          cats, parent, category, lastDel, dpc, dinst>>

\* ------------------------------------------------------------ pure helpers
Max(a, b) == IF a >= b THEN a ELSE b

RECURSIVE SumQuantity(_)
\* sum([x.quantity for x in rows])
SumQuantity(rows) ==
    IF rows = <<>> THEN 0 ELSE Head(rows).quantity + SumQuantity(Tail(rows))

\* ------------------------------------------------------------- BOM graph
\* Reverse lookup Part.bom_items: the rows whose parent is p.
bom_items(E, p) == SelectSeq(E, LAMBDA it : it.part = p)

\* Reverse lookup Part.used_in: the rows whose sub-part is p.
used_in(E, p) == SelectSeq(E, LAMBDA it : it.sub_part = p)

bom_count(E, p) == Len(bom_items(E, p))

has_bom(E, p) == bom_count(E, p) > 0

RECURSIVE clean_loop(_, _)
\* for item in self.sub_part.bom_items.all(): if self.part == item.sub_part: raise
clean_loop(items, part) ==
    IF items = <<>> THEN "OK"
    ELSE IF part = Head(items).sub_part THEN "RecursiveBomError"
    ELSE clean_loop(Tail(items), part)

\* Mutation of clean: the loop over the sub-part's BOM is left out.
clean_no_loop(E, part, sub_part) ==
    IF part = sub_part THEN "SelfReferenceError" ELSE "OK"

\* BomItem.clean: the first raise is the self reference, the second the
\* one-hop recursion (both are ValidationError in the code).
clean(E, part, sub_part) ==
    IF part = sub_part THEN "SelfReferenceError"
    ELSE clean_loop(bom_items(E, sub_part), part)

\* Mutation of unique_together: the constraint is absent.
unique_together_absent(E, part, sub_part) == TRUE

\* Meta.unique_together = ('part', 'sub_part'): the insert is refused when a
\* row with the same pair exists.
unique_together(E, part, sub_part) ==
    \A i \in DOMAIN E : ~(E[i].part = part /\ E[i].sub_part = sub_part)

\* Outcome of clean() followed by save().
addEdgeOutcome(E, part, sub_part) ==
    LET c == clean(E, part, sub_part) IN
    IF c # "OK" THEN c
    ELSE IF unique_together(E, part, sub_part) THEN "OK"
    ELSE "DuplicateEdgeError"

NumRows == Len(edges) + Len(stock) + Len(builds)

\* ----------------------------------------------------- stock and builds
\* Part.stock_entries
stock_entries(p) == SelectSeq(stock, LAMBDA loc : loc.part = p /\ loc.in_stock)

\* Part.total_stock
total_stock(p) == SumQuantity(stock_entries(p))

\* Part.active_builds
active_builds(p) == SelectSeq(builds, LAMBDA b : b.part = p /\ b.is_active)

RECURSIVE build_loop(_, _)
\* inner loop of build_allocation: one entry per active build of item.part
build_loop(item, bs) ==
    IF bs = <<>> THEN <<>>
    ELSE <<[build |-> Head(bs), quantity |-> item.quantity * Head(bs).quantity]>>
         \o build_loop(item, Tail(bs))

RECURSIVE item_loop(_)
\* outer loop of build_allocation over self.used_in.all()
item_loop(items) ==
    IF items = <<>> THEN <<>>
    ELSE build_loop(Head(items), active_builds(Head(items).part))
         \o item_loop(Tail(items))

\* Part.build_allocation
build_allocation(p) == item_loop(used_in(edges, p))

\* Part.allocated_build_count
allocated_build_count(p) == SumQuantity(build_allocation(p))

\* Part.allocation_count
allocation_count(p) == allocated_build_count(p)

\* Mutation of available_stock: the clamp at zero is left out.
available_stock_unclamped(p) == total_stock(p) - allocation_count(p)

\* Part.available_stock
available_stock(p) == Max(total_stock(p) - allocation_count(p), 0)

\* A value returned, or an exception raised, by a property of the code.
Returns(n) == [error |-> None, value |-> n]

Raises(e) == [error |-> e, value |-> 0]

RECURSIVE can_build_loop(_, _)
\* Loop of can_build.  total is <<>> for None and <<n>> for the number n.  The
\* division int(1.0 * stock / item.quantity) raises ZeroDivisionError on
\* quantity 0; stock and quantity are not negative, so int() is the floor.
can_build_loop(items, total) ==
    IF items = <<>> THEN Returns(Max(total[1], 0))
    ELSE LET item == Head(items)
             stk == available_stock(item.sub_part)
         IN IF item.quantity = 0 THEN Raises("ZeroDivisionError")
            ELSE LET n == stk \div item.quantity IN
                 can_build_loop(Tail(items),
                                IF total = <<>> \/ n < total[1]
                                THEN <<n>> ELSE total)

\* Part.can_build
can_build(p) ==
    IF ~has_bom(edges, p) THEN Returns(available_stock(p))
    ELSE can_build_loop(bom_items(edges, p), <<>>)

\* ---------------------------------------------------------------- inputs
StockRows == [part : Parts, quantity : 1..MaxQty, in_stock : BOOLEAN]

BuildRows == [part : Parts, quantity : 1..MaxQty, is_active : BOOLEAN]

RECURSIVE SeqsUpTo(_, _)
\* The sequences over S of length at most n.
SeqsUpTo(S, n) ==
    IF n = 0 THEN {<<>>}
    ELSE LET shorter == SeqsUpTo(S, n - 1) IN
         shorter \cup {Append(s, x) : s \in shorter, x \in S}

\* ------------------------------------------------------- sequential addEdge
NoRequest == [part |-> None, sub_part |-> None, quantity |-> 0]

ConcIdle ==
    /\ pc = [p \in Procs |-> "idle"]
    /\ req = [p \in Procs |-> NoRequest]
    /\ res = [p \in Procs |-> None]

NoDeletion == [id |-> None, parent |-> None, parts |-> {}, children |-> {}]

NoInstance == [id |-> None, parent |-> None]

CatsFixed ==
    /\ cats = Cats
    /\ parent = [c \in Cats |-> None]
    /\ category = [p \in Parts |-> None]
    /\ lastDel = NoDeletion

DelsIdle ==
    /\ dpc = [d \in Dels |-> "idle"]
    /\ dinst = [d \in Dels |-> NoInstance]

\* State after construction: no BOM rows; the stock ledger and the build
\* store hold whatever the stock and build applications put there.
Init ==
    /\ edges = <<>>
    /\ stock \in SeqsUpTo(StockRows, MaxRows - 1)
    /\ builds \in SeqsUpTo(BuildRows, MaxRows - 1 - Len(stock))
    /\ result = None
    /\ ConcIdle
    /\ CatsFixed
    /\ DelsIdle

\* addEdge: BomItem(part, sub_part, quantity) validated by clean(), then saved.
AddEdge(part, sub_part, quantity) ==
    LET r == addEdgeOutcome(edges, part, sub_part) IN
    /\ r = "OK" => NumRows < MaxRows
    /\ result' = r
    /\ edges' = IF r = "OK"
                THEN Append(edges, [part |-> part, sub_part |-> sub_part,
                                    quantity |-> quantity])
                ELSE edges
    /\ UNCHANGED <<stock, builds, concVars, catVars, delVars>>

Next == \E part \in Parts, sub_part \in Parts, quantity \in Quantities :
            AddEdge(part, sub_part, quantity)

Spec == Init /\ [][Next]_vars

\* ------------------------------------------------------- concurrent addEdge
InitConc ==
    /\ edges = <<>>
    /\ stock = <<>>
    /\ builds = <<>>
    /\ result = None
    /\ ConcIdle
    /\ CatsFixed
    /\ DelsIdle

\* Number of validated BomItems not yet written.
Pending == Cardinality({p \in Procs : pc[p] = "validated"})

\* First step of a handler's addEdge: clean() reads the sub-part's BOM as it
\* is now and either raises or lets the BomItem through to save().
Validate(p, part, sub_part, quantity) ==
    LET c == clean(edges, part, sub_part) IN
    /\ pc[p] = "idle"
    /\ c = "OK" => Len(edges) + Pending < MaxRows
    /\ IF c = "OK"
       THEN /\ pc' = [pc EXCEPT ![p] = "validated"]
            /\ req' = [req EXCEPT ![p] = [part |-> part, sub_part |-> sub_part,
                                          quantity |-> quantity]]
            /\ res' = [res EXCEPT ![p] = None]
       ELSE /\ res' = [res EXCEPT ![p] = c]
            /\ UNCHANGED <<pc, req>>
    /\ UNCHANGED <<bomVars, catVars, delVars>>

\* Second step: save() inserts the row; the database enforces unique_together.
Write(p) ==
    /\ pc[p] = "validated"
    /\ IF unique_together(edges, req[p].part, req[p].sub_part)
       THEN /\ edges' = Append(edges, req[p])
            /\ res' = [res EXCEPT ![p] = "OK"]
       ELSE /\ edges' = edges
            /\ res' = [res EXCEPT ![p] = "DuplicateEdgeError"]
    /\ pc' = [pc EXCEPT ![p] = "idle"]
    /\ req' = [req EXCEPT ![p] = NoRequest]
    /\ UNCHANGED <<stock, builds, result, catVars, delVars>>

NextConc ==
    \/ \E p \in Procs, part \in Parts, sub_part \in Parts, quantity \in Quantities :
           Validate(p, part, sub_part, quantity)
    \/ \E p \in Procs : Write(p)

SpecConc == InitConc /\ [][NextConc]_vars

\* ----------------------------------------------------------- category tree
\* Depth at which the interpreter gives up a recursion (RecursionError).
RecursionLimit == 4

CatOrNone == Cats \cup {None}

\* PartCategory.parts: the parts whose category is c.
parts_of(cat, c) == {p \in Parts : cat[p] = c}

\* PartCategory.children: the categories whose parent is c.
children_of(par, c) == {d \in DOMAIN par : par[d] = c}

RECURSIVE partcount_at(_, _, _, _)
RECURSIVE partcount_children(_, _, _, _, _)
\* for child in self.children.all(): count += child.partcount
partcount_children(par, cat, todo, count, depth) ==
    IF todo = {} THEN Returns(count)
    ELSE LET child == CHOOSE d \in todo : TRUE
             sub == partcount_at(par, cat, child, depth + 1)
         IN IF sub.error # None THEN sub
            ELSE partcount_children(par, cat, todo \ {child},
                                    count + sub.value, depth)

\* PartCategory.partcount entered at the given call depth: the code keeps no
\* visited set, so a cycle of parents recurses until the interpreter stops it.
partcount_at(par, cat, c, depth) ==
    IF depth > RecursionLimit THEN Raises("RecursionError")
    ELSE partcount_children(par, cat, children_of(par, c),
                            Cardinality(parts_of(cat, c)), depth)

\* PartCategory.partcount
partcount(c) == partcount_at(parent, category, c, 1)

\* First loop of before_delete_part_category: every part of the instance gets
\* the instance's parent as its category.
reparent_parts(cat, inst) ==
    [p \in Parts |-> IF cat[p] = inst.id THEN inst.parent ELSE cat[p]]

\* Mutation of the second loop: the child categories are left as they are.
reparent_children_skipped(par, inst) == par

\* Second loop of before_delete_part_category: every child category of the
\* instance gets the instance's parent as its parent.
reparent_children(par, inst) ==
    [d \in DOMAIN par |-> IF par[d] = inst.id THEN inst.parent ELSE par[d]]

\* Removal of the category's own row once the pre_delete handler has run:
\* nothing else is deleted and no other row is written.
remove_record(par, c) == [d \in DOMAIN par \ {c} |-> par[d]]

\* The instance of category c as a request loads it.
load(c) == [id |-> c, parent |-> parent[c]]

RECURSIVE ancestor_at(_, _, _, _)
\* Whether a is reached from c by following parent at most n times.
ancestor_at(par, c, a, n) ==
    /\ n > 0
    /\ c \in DOMAIN par
    /\ par[c] # None
    /\ \/ par[c] = a
       \/ ancestor_at(par, par[c], a, n - 1)

\* The forest invariant of the category tree: no category is its own ancestor.
IsForest(par) ==
    \A c \in DOMAIN par : ~ancestor_at(par, c, c, Cardinality(Cats))

Forests == {f \in [Cats -> CatOrNone] : IsForest(f)}

InitCat ==
    /\ edges = <<>>
    /\ stock = <<>>
    /\ builds = <<>>
    /\ result = None
    /\ ConcIdle
    /\ cats = Cats
    /\ parent \in Forests
    /\ category \in [Parts -> CatOrNone]
    /\ lastDel = NoDeletion
    /\ DelsIdle

\* Deletion of category c in one piece: the pre_delete handler, then the
\* removal of the row.
DeleteCategory(c) ==
    LET inst == load(c) IN
    /\ c \in cats
    /\ category' = reparent_parts(category, inst)
    /\ parent' = remove_record(reparent_children(parent, inst), c)
    /\ cats' = cats \ {c}
    /\ lastDel' = [id |-> c, parent |-> inst.parent,
                   parts |-> parts_of(category, c),
                   children |-> children_of(parent, c)]
    /\ UNCHANGED <<bomVars, concVars, delVars>>

NextCat == \E c \in Cats : DeleteCategory(c)

SpecCat == InitCat /\ [][NextCat]_vars

\* A category table whose parent column was written from outside the tree
\* operations: any category, itself included, may be anyone's parent.
InitCorrupt ==
    /\ edges = <<>>
    /\ stock = <<>>
    /\ builds = <<>>
    /\ result = None
    /\ ConcIdle
    /\ cats = Cats
    /\ parent \in [Cats -> CatOrNone]
    /\ category \in [Parts -> CatOrNone]
    /\ lastDel = NoDeletion
    /\ DelsIdle

SpecCorrupt == InitCorrupt /\ [][NextCat]_vars

\* ---------------------------------------------------- concurrent deletion
\* A deletion request loads its instance; instance.parent is what the row
\* holds at that moment.
LoadInstance(d, c) ==
    /\ dpc[d] = "idle"
    /\ c \in cats
    /\ dinst' = [dinst EXCEPT ![d] = load(c)]
    /\ dpc' = [dpc EXCEPT ![d] = "parts"]
    /\ UNCHANGED <<bomVars, concVars, catVars>>

\* for part in instance.parts.all(): part.category = instance.parent; part.save()
ReparentParts(d) ==
    /\ dpc[d] = "parts"
    /\ category' = reparent_parts(category, dinst[d])
    /\ dpc' = [dpc EXCEPT ![d] = "children"]
    /\ UNCHANGED <<bomVars, concVars, cats, parent, lastDel, dinst>>

\* for child in instance.children.all(): child.parent = instance.parent; child.save()
ReparentChildren(d) ==
    /\ dpc[d] = "children"
    /\ parent' = reparent_children(parent, dinst[d])
    /\ dpc' = [dpc EXCEPT ![d] = "remove"]
    /\ UNCHANGED <<bomVars, concVars, cats, category, lastDel, dinst>>

\* The row of the instance is removed.
RemoveRecord(d) ==
    /\ dpc[d] = "remove"
    /\ parent' = remove_record(parent, dinst[d].id)
    /\ cats' = cats \ {dinst[d].id}
    /\ dpc' = [dpc EXCEPT ![d] = "done"]
    /\ UNCHANGED <<bomVars, concVars, category, lastDel, dinst>>

NextDel ==
    \/ \E d \in Dels, c \in Cats : LoadInstance(d, c)
    \/ \E d \in Dels : ReparentParts(d)
    \/ \E d \in Dels : ReparentChildren(d)
    \/ \E d \in Dels : RemoveRecord(d)

SpecDel == InitCat /\ [][NextDel]_vars

\* ================================================================== claims
\* Whether the BomItem table E holds a row for the ordered pair (p, s).
HasEdge(E, p, s) == \E i \in DOMAIN E : E[i].part = p /\ E[i].sub_part = s

RECURSIVE Reaches(_, _, _, _)
\* Whether s is reached from p along at most n rows of E read as edges.
Reaches(E, p, s, n) ==
    /\ n > 0
    /\ \/ HasEdge(E, p, s)
       \/ \E m \in Parts : HasEdge(E, p, m) /\ Reaches(E, m, s, n - 1)

RECURSIVE SumOver(_, _)
\* The sum of f[x] over the finite set DOMAIN f.
SumOver(S, f) ==
    IF S = {} THEN 0
    ELSE LET x == CHOOSE y \in S : TRUE IN f[x] + SumOver(S \ {x}, f)

\* C1: after any sequence of addEdge calls from the empty table, the BomItem
\* table read as a directed graph has no cycle of any length.
C1_Acyclic ==
    \A p \in Parts : ~Reaches(edges, p, p, Cardinality(Parts))

\* C2: addEdge(p, p) is rejected with SelfReferenceError; addEdge(p, s) is
\* rejected with RecursiveBomError when the row (s, p) exists; a rejected call
\* leaves the table as it was and an accepted one adds one row; so no state
\* holds a row (p, p) or two opposite rows (p, s), (s, p).
C2_Rejections ==
    /\ [](/\ \A p \in Parts : addEdgeOutcome(edges, p, p) = "SelfReferenceError"
          /\ \A p \in Parts, s \in Parts :
                (p # s /\ HasEdge(edges, s, p))
                    => addEdgeOutcome(edges, p, s) = "RecursiveBomError"
          /\ \A p \in Parts : ~HasEdge(edges, p, p)
          /\ \A p \in Parts, s \in Parts :
                ~(HasEdge(edges, p, s) /\ HasEdge(edges, s, p)))
    /\ [][/\ result' # "OK" => edges' = edges
          /\ result' = "OK" => /\ Len(edges') = Len(edges) + 1
                               /\ SubSeq(edges', 1, Len(edges)) = edges]_vars

\* An addEdge has just been rejected as recursive: the reverse row exists.
C2_Witness ==
    /\ result = "RecursiveBomError"
    /\ \E p \in Parts, s \in Parts : p # s /\ HasEdge(edges, p, s)

\* C3: at most one row per ordered pair (part, sub_part) in every state, also
\* when calls interleave; a write for a pair that is in the table ends in
\* DuplicateEdgeError and changes nothing.
C3_UniquePairs ==
    /\ [](\A i \in DOMAIN edges, j \in DOMAIN edges :
             (edges[i].part = edges[j].part
              /\ edges[i].sub_part = edges[j].sub_part) => i = j)
    /\ [][\A p \in Procs :
             (pc[p] = "validated" /\ pc'[p] = "idle"
              /\ HasEdge(edges, req[p].part, req[p].sub_part))
                 => (res'[p] = "DuplicateEdgeError" /\ edges' = edges)]_vars

\* A handler holds a validated BomItem for the pair another handler has
\* written: its write is the second insert of that pair.
C3_Witness ==
    \E p \in Procs, q \in Procs :
        /\ p # q
        /\ pc[p] = "validated"
        /\ res[q] = "OK"
        /\ Len(edges) = 1
        /\ HasEdge(edges, req[p].part, req[p].sub_part)

NoDanglingReference ==
    /\ \A p \in Parts : category[p] \in cats \cup {None}
    /\ \A c \in cats : parent[c] \in cats \cup {None}

\* C5: once two concurrent deletions have both completed, no part's category
\* and no category's parent refers to a deleted category.
C5_ConcurrentDeletes ==
    (\A d \in Dels : dpc[d] = "done") => NoDanglingReference

\* totalStock as the claim states it: the quantities of p's in-stock entries.
TotalStockDef(p) ==
    LET S == {i \in DOMAIN stock : stock[i].part = p /\ stock[i].in_stock}
    IN SumOver(S, [i \in S |-> stock[i].quantity])

\* allocationCount as the claim states it: over every row with p as sub-part
\* and every active build of that row's parent, row quantity * build quantity.
AllocationDef(p) ==
    LET S == {ij \in (DOMAIN edges) \X (DOMAIN builds) :
                 /\ edges[ij[1]].sub_part = p
                 /\ builds[ij[2]].part = edges[ij[1]].part
                 /\ builds[ij[2]].is_active}
    IN SumOver(S, [ij \in S |-> edges[ij[1]].quantity * builds[ij[2]].quantity])

C7_CanBuildNeverFails ==
    \A p \in Parts : can_build(p).error = None

\* The quotients floor(availableStock(sub_part) / quantity) over the rows of p
\* with quantity >= 1.
Quotients(p) ==
    {available_stock(edges[i].sub_part) \div edges[i].quantity :
        i \in {j \in DOMAIN edges : edges[j].part = p /\ edges[j].quantity >= 1}}

\* C8: canBuild(P) = availableStock(P) when P has no BOM row; otherwise it is
\* the minimum of the quotients of P's rows with quantity >= 1, floored at 0.
C8_CanBuildValue ==
    \A p \in Parts :
        IF ~\E s \in Parts : HasEdge(edges, p, s)
        THEN can_build(p) = Returns(available_stock(p))
        ELSE /\ can_build(p).error = None
             /\ \A m \in Quotients(p) :
                   (\A n \in Quotients(p) : m <= n)
                       => can_build(p).value = Max(m, 0)

\* The parts owned by c or by a category below c.
PartCountDef(c) ==
    Cardinality({p \in Parts :
        \/ category[p] = c
        \/ ancestor_at(parent, category[p], c, Cardinality(Cats))})

\* C9: partCount always terminates: on a forest with the sum over the
\* category and all its descendants, on a relation with a cycle with a
\* StructuralCorruption error.
C9_PartCount ==
    \A c \in cats :
        /\ partcount(c).error \in {None, "StructuralCorruption"}
        /\ IsForest(parent) => partcount(c) = Returns(PartCountDef(c))

\* C10: no interleaving of addEdge(A, B) and addEdge(B, A) reaches a state
\* that holds both rows.
C10_NoOppositeEdges ==
    \A p \in Parts, s \in Parts : ~(HasEdge(edges, p, s) /\ HasEdge(edges, s, p))

====
